---- MODULE Spec2Model ----
(***************************************************************************)
(* A model of consistent-hasher.h: the ring of nodes kept in a dynamic     *)
(* array (ConsistentHasher), its binary search, insert_node, delete_node   *)
(* and get_node_of.  Array indices are the C indices (from 0).  The buffer *)
(* ch.nodes has exactly nodes_capacity slots; slots at or after nodes_len  *)
(* keep whatever the allocator (zeroes) or an earlier call left in them.   *)
(* A read past the buffer yields an arbitrary value, a write past the      *)
(* buffer is not retained.  Behaviours cover the life of a ring between    *)
(* consistent_hasher_init and consistent_hasher_destroy.                   *)
(***************************************************************************)
EXTENDS Integers, Sequences, FiniteSets, TLC

\* ---------------------------------------------------------------- bounds
\* node and item hashes are drawn from 0..MaxHash
MaxHash == 5
\* ring_size, the argument of consistent_hasher_init, is drawn from 1..MaxRing
MaxRing == 4
\* CONSISTENT_HASHER_INITIAL_CAPACITY (a build-time choice) is drawn from 1..MaxInitCap
MaxInitCap == 2
\* insert_node is called only while nodes_len < MaxLen
MaxLen == 4

Hashes == 0..MaxHash

\* ------------------------------------------------------- error codes
CONSISTENT_HASHER_OK == 0
CONSISTENT_HASHER_ERROR_ALLOCATION == 2
CONSISTENT_HASHER_ERROR_NODE_PRESENT == 3

VARIABLES
  ch,                \* the ConsistentHasher: ring_size, nodes, nodes_len, nodes_capacity
  initial_capacity,  \* the value of CONSISTENT_HASHER_INITIAL_CAPACITY of this build
  call,              \* the last call: its name, argument, return value, and whether
                     \* the allocator returned NULL during it
  live,              \* hashes whose insert returned OK and that were not deleted since
  ever               \* hashes whose insert returned OK at some time

vars == <<ch, initial_capacity, call, live, ever>>

\* ------------------------------------------------------------- nodes
Node(h, p) == [hash |-> h, position |-> p]

\* a slot as calloc hands it out
ZeroNode == Node(0, 0)

\* the position of a hash on a ring of ring_size slots
Position(h, ring_size) == h % ring_size

\* a buffer of n slots as calloc returns it
Calloc(n) == [i \in 0..(n - 1) |-> ZeroNode]

\* C's division of ints, which truncates toward zero
CDiv(a, b) == IF a >= 0 THEN a \div b ELSE -((-a) \div b)

\* the midpoint taken as half the sum of the two ends
Mid_half_sum(start, end) == CDiv(start + end, 2)

Mid(start, end) == CDiv(end - start, 2) + start

\* --------------------------------------------------- binary search
\* The loop of _consistent_hasher_binary_search from the window [start, end]:
\* the set of results (found, *index) it can return.  The set has one element
\* unless nodes[mid] lies past the buffer, where the comparison can go any way.
RECURSIVE binary_search_loop(_, _, _, _)
binary_search_loop(c, position, start, end) ==
  LET mid == Mid(start, end) IN
  IF ~(end >= start)
    THEN {[found |-> FALSE, index |-> mid]}
    ELSE IF mid < c.nodes_capacity
      THEN IF c.nodes[mid].position = position
             THEN {[found |-> TRUE, index |-> start]}
             ELSE IF c.nodes[mid].position > position
               THEN binary_search_loop(c, position, start, mid - 1)
               ELSE binary_search_loop(c, position, mid + 1, end)
      ELSE {[found |-> TRUE, index |-> start]}
           \cup binary_search_loop(c, position, start, mid - 1)
           \cup (IF position > 0
                   THEN binary_search_loop(c, position, mid + 1, end)
                   ELSE {})

_consistent_hasher_binary_search(c, node_hash) ==
  binary_search_loop(c, Position(node_hash, c.ring_size), 0, c.nodes_len - 1)

\* ------------------------------------------------------------ insert
\* the first insertion: ch->nodes is NULL
insert_first(c, new_node, alloc_ok) ==
  IF ~alloc_ok
    THEN [ret |-> CONSISTENT_HASHER_ERROR_ALLOCATION, ch |-> c, alloc_null |-> TRUE]
    ELSE [ret |-> CONSISTENT_HASHER_OK,
          ch |-> [c EXCEPT !.nodes_null = FALSE,
                           !.nodes = [i \in 0..(initial_capacity - 1) |->
                                        IF i = 0 THEN new_node ELSE ZeroNode],
                           !.nodes_capacity = initial_capacity,
                           !.nodes_len = 1],
          alloc_null |-> FALSE]

\* nodes_capacity == nodes_len: copy into a buffer of twice the capacity,
\* leaving slot index free, then write the new node there
insert_grow(c, new_node, index, alloc_ok) ==
  LET new_capacity == c.nodes_capacity * 2 IN
  IF ~alloc_ok
    THEN [ret |-> CONSISTENT_HASHER_ERROR_ALLOCATION, ch |-> c, alloc_null |-> TRUE]
    ELSE [ret |-> CONSISTENT_HASHER_OK,
          ch |-> [c EXCEPT !.nodes = [j \in 0..(new_capacity - 1) |->
                                        IF j = index THEN new_node
                                        ELSE IF j < index THEN c.nodes[j]
                                        ELSE IF j <= c.nodes_capacity THEN c.nodes[j - 1]
                                        ELSE ZeroNode],
                           !.nodes_capacity = new_capacity,
                           !.nodes_len = c.nodes_len + 1],
          alloc_null |-> FALSE]

\* the shift loop  for (i = nodes_len - 1; i > index + 1; --i) nodes[i] = nodes[i-1]
\* followed by nodes[index] = new_node
insert_shift(c, new_node, index) ==
  [ret |-> CONSISTENT_HASHER_OK,
   ch |-> [c EXCEPT !.nodes = [i \in 0..(c.nodes_capacity - 1) |->
                                 IF i = index THEN new_node
                                 ELSE IF i > index + 1 /\ i <= c.nodes_len - 1
                                   THEN c.nodes[i - 1]
                                   ELSE c.nodes[i]],
                    !.nodes_len = c.nodes_len + 1],
   alloc_null |-> FALSE]

\* consistent_hasher_insert_node: the set of outcomes (ret, ring after the call)
consistent_hasher_insert_node(c, node_hash, alloc_ok) ==
  LET new_node == Node(node_hash, Position(node_hash, c.ring_size)) IN
  IF c.nodes_null
    THEN {insert_first(c, new_node, alloc_ok)}
    ELSE { IF r.found
             THEN [ret |-> CONSISTENT_HASHER_ERROR_NODE_PRESENT, ch |-> c,
                   alloc_null |-> FALSE]
             ELSE IF c.nodes_capacity = c.nodes_len
               THEN insert_grow(c, new_node, r.index, alloc_ok)
               ELSE insert_shift(c, new_node, r.index)
           : r \in _consistent_hasher_binary_search(c, node_hash) }

\* ------------------------------------------------------------ delete
\* delete_shrink with nodes_len decremented before the allocation is checked
delete_shrink_len_first(c, index, alloc_ok) ==
  IF ~alloc_ok
    THEN [ret |-> CONSISTENT_HASHER_ERROR_ALLOCATION,
          ch |-> [c EXCEPT !.nodes_len = c.nodes_len - 1], alloc_null |-> TRUE]
    ELSE [ret |-> CONSISTENT_HASHER_OK,
          ch |-> [c EXCEPT !.nodes = [i \in 0..(c.nodes_len - 2) |->
                                        c.nodes[IF i < index THEN i ELSE i + 1]],
                           !.nodes_len = c.nodes_len - 1,
                           !.nodes_capacity = c.nodes_len - 1],
          alloc_null |-> FALSE]

\* nodes_len - 1 == nodes_capacity / 2: copy all but slot index into a buffer
\* of nodes_len - 1 slots
delete_shrink(c, index, alloc_ok) ==
  IF ~alloc_ok
    THEN [ret |-> CONSISTENT_HASHER_ERROR_ALLOCATION, ch |-> c, alloc_null |-> TRUE]
    ELSE [ret |-> CONSISTENT_HASHER_OK,
          ch |-> [c EXCEPT !.nodes = [i \in 0..(c.nodes_len - 2) |->
                                        c.nodes[IF i < index THEN i ELSE i + 1]],
                           !.nodes_len = c.nodes_len - 1,
                           !.nodes_capacity = c.nodes_len - 1],
          alloc_null |-> FALSE]

\* the shift loop  for (i = index; i < nodes_len - 2; ++i) nodes[i] = nodes[i+1]
delete_shift(c, index) ==
  [ret |-> CONSISTENT_HASHER_OK,
   ch |-> [c EXCEPT !.nodes = [i \in 0..(c.nodes_capacity - 1) |->
                                 IF i >= index /\ i < c.nodes_len - 2
                                   THEN c.nodes[i + 1]
                                   ELSE c.nodes[i]],
                    !.nodes_len = c.nodes_len - 1],
   alloc_null |-> FALSE]

\* consistent_hasher_delete_node: the set of outcomes (ret, ring after the call)
consistent_hasher_delete_node(c, node_hash, alloc_ok) ==
  { IF ~r.found
      THEN [ret |-> CONSISTENT_HASHER_OK, ch |-> c, alloc_null |-> FALSE]
      ELSE IF c.nodes_len - 1 = CDiv(c.nodes_capacity, 2)
        THEN delete_shrink(c, r.index, alloc_ok)
        ELSE delete_shift(c, r.index)
    : r \in _consistent_hasher_binary_search(c, node_hash) }

\* ----------------------------------------------------------- resolve
\* consistent_hasher_get_node_of: the set of hashes it can return.  nodes[index]
\* is read even when index == nodes_len; past the buffer the value is arbitrary.
consistent_hasher_get_node_of(c, item_hash) ==
  UNION { LET wrapped ==
                IF r.index < c.nodes_capacity
                  THEN {Position(item_hash, c.ring_size) > c.nodes[r.index].position}
                  ELSE IF Position(item_hash, c.ring_size) > 0
                    THEN {TRUE, FALSE} ELSE {FALSE}
          IN UNION { LET index == IF w THEN 0 ELSE r.index IN
                     IF index < c.nodes_capacity
                       THEN {c.nodes[index].hash}
                       ELSE Hashes
                     : w \in wrapped }
          : r \in _consistent_hasher_binary_search(c, item_hash) }

\* the indices at which consistent_hasher_get_node_of can read nodes[index].position
\* to decide whether to wrap to index 0: the index the search stored
get_node_of_compared(c, item_hash) ==
  {r.index : r \in _consistent_hasher_binary_search(c, item_hash)}

\* ------------------------------------------------------ the machine
\* consistent_hasher_init(ch, ring_size)
consistent_hasher_init(ring_size) ==
  [ring_size |-> ring_size, nodes_null |-> TRUE, nodes |-> Calloc(0),
   nodes_len |-> 0, nodes_capacity |-> 0]

Init ==
  /\ \E ring_size \in 1..MaxRing : ch = consistent_hasher_init(ring_size)
  /\ initial_capacity \in 1..MaxInitCap
  /\ call = [op |-> "init", arg |-> 0, ret |-> 0, alloc_null |-> FALSE]
  /\ live = {}
  /\ ever = {}

\* hashes that share the position of h
SamePosition(h) == {a \in Hashes : Position(a, ch.ring_size) = Position(h, ch.ring_size)}

\* a call of consistent_hasher_insert_node(&ch, node_hash)
Insert(node_hash, alloc_ok) ==
  /\ ch.nodes_len < MaxLen
  /\ \E o \in consistent_hasher_insert_node(ch, node_hash, alloc_ok) :
       /\ ch' = o.ch
       /\ call' = [op |-> "insert", arg |-> node_hash, ret |-> o.ret,
                   alloc_null |-> o.alloc_null]
  /\ UNCHANGED initial_capacity

\* a call of consistent_hasher_delete_node(&ch, node_hash)
Delete(node_hash, alloc_ok) ==
  /\ \E o \in consistent_hasher_delete_node(ch, node_hash, alloc_ok) :
       /\ ch' = o.ch
       /\ call' = [op |-> "delete", arg |-> node_hash, ret |-> o.ret,
                   alloc_null |-> o.alloc_null]
  /\ UNCHANGED initial_capacity

\* a call of consistent_hasher_get_node_of(&ch, item_hash); callers must not
\* query an empty ring
GetNodeOf(item_hash) ==
  /\ ch.nodes_len >= 1
  /\ \E h \in consistent_hasher_get_node_of(ch, item_hash) :
       call' = [op |-> "get", arg |-> item_hash, ret |-> h, alloc_null |-> FALSE]
  /\ UNCHANGED <<ch, initial_capacity>>

\* The history of the calls.  live: the hashes whose insert returned OK and
\* for which no delete of their position returned OK since.  ever: the hashes
\* whose insert returned OK at some time.
LiveAfter ==
  IF call'.ret # CONSISTENT_HASHER_OK THEN live
  ELSE IF call'.op = "insert" THEN live \cup {call'.arg}
  ELSE live \ SamePosition(call'.arg)

EverAfter ==
  IF call'.op = "insert" /\ call'.ret = CONSISTENT_HASHER_OK
    THEN ever \cup {call'.arg} ELSE ever

Next ==
  \/ \E node_hash \in Hashes, alloc_ok \in BOOLEAN :
       Insert(node_hash, alloc_ok) /\ UNCHANGED <<live, ever>>
  \/ \E node_hash \in Hashes, alloc_ok \in BOOLEAN :
       Delete(node_hash, alloc_ok) /\ UNCHANGED <<live, ever>>
  \/ \E item_hash \in Hashes :
       GetNodeOf(item_hash) /\ UNCHANGED <<live, ever>>

\* the ring alone; the history variables stay empty
Spec == Init /\ [][Next]_vars

NextLive ==
  \/ \E node_hash \in Hashes, alloc_ok \in BOOLEAN :
       Insert(node_hash, alloc_ok) /\ live' = LiveAfter /\ UNCHANGED ever
  \/ \E node_hash \in Hashes, alloc_ok \in BOOLEAN :
       Delete(node_hash, alloc_ok) /\ live' = LiveAfter /\ UNCHANGED ever

\* insert and delete calls, with the live hashes recorded
SpecLive == Init /\ [][NextLive]_vars

NextEver ==
  \/ \E node_hash \in Hashes, alloc_ok \in BOOLEAN :
       Insert(node_hash, alloc_ok) /\ ever' = EverAfter /\ UNCHANGED live
  \/ \E node_hash \in Hashes, alloc_ok \in BOOLEAN :
       Delete(node_hash, alloc_ok) /\ ever' = EverAfter /\ UNCHANGED live

\* insert and delete calls, with the hashes ever inserted recorded
SpecEver == Init /\ [][NextEver]_vars

\* ------------------------------------------- the search on its own
\* a ring of ring_size slots whose array holds, in ascending order of
\* position, one node per position of P: the node of hash hash_at[p] at p
SortedRing(ring_size, P, hash_at, capacity) ==
  [ring_size |-> ring_size,
   nodes_null |-> (capacity = 0),
   nodes |-> [i \in 0..(capacity - 1) |->
                IF i < Cardinality(P)
                  THEN LET p == CHOOSE q \in P : Cardinality({x \in P : x < q}) = i
                       IN  Node(hash_at[p], p)
                  ELSE ZeroNode],
   nodes_len |-> Cardinality(P),
   nodes_capacity |-> capacity]

\* the strictly sorted rings of at most MaxLen nodes, the empty one included,
\* full or with one free slot
SortedRings ==
  UNION { UNION { { SortedRing(ring_size, P, hash_at, capacity) :
                      hash_at \in {f \in [P -> Hashes] :
                                     \A p \in P : Position(f[p], ring_size) = p},
                      capacity \in Cardinality(P)..(Cardinality(P) + 1) } :
                  P \in {Q \in SUBSET (0..(ring_size - 1)) : Cardinality(Q) <= MaxLen} } :
          ring_size \in 1..MaxRing }

InitSearch ==
  /\ ch \in SortedRings
  /\ initial_capacity \in 1..MaxInitCap
  /\ call = [op |-> "init", arg |-> 0, ret |-> 0, alloc_null |-> FALSE]
  /\ live = {}
  /\ ever = {}

\* a call of _consistent_hasher_binary_search(&ch, node_hash, &index)
BinarySearch(node_hash) ==
  /\ \E r \in _consistent_hasher_binary_search(ch, node_hash) :
       call' = [op |-> "search", arg |-> node_hash, found |-> r.found, index |-> r.index]
  /\ UNCHANGED <<ch, initial_capacity, live, ever>>

NextSearch == \E node_hash \in Hashes : BinarySearch(node_hash)

\* binary searches on the strictly sorted rings
SpecSearch == InitSearch /\ [][NextSearch]_vars

\* ------------------------------------------------------------ claims
\* the array holds nodes_len slots of the buffer
InBuffer(c) == c.nodes_len <= c.nodes_capacity

\* the entries nodes[0..nodes_len) held by the buffer
Stored(c) == {c.nodes[i] : i \in (0..(c.nodes_len - 1)) \cap DOMAIN c.nodes}

StrictlySorted(c) ==
  /\ InBuffer(c)
  /\ \A i \in 0..(c.nodes_len - 2) : c.nodes[i].position < c.nodes[i + 1].position

\* the stored nodes at or after position p
AtOrAfter(c, p) == {n \in Stored(c) : n.position >= p}

\* the hashes of the stored nodes of least position among S
LeastPosition(S) == {n.hash : n \in {m \in S : \A k \in S : m.position <= k.position}}

\* C1 (clockwise assignment), stated for the rings whose array is strictly
\* sorted: for every item hash h such that some stored node has
\* position >= h mod ring_size, get_node_of(h) returns the hash of the stored
\* node with the smallest such position.
C1_ClockwiseAssignment ==
  \A h \in Hashes :
    LET at == AtOrAfter(ch, Position(h, ch.ring_size)) IN
    (StrictlySorted(ch) /\ at # {}) =>
      consistent_hasher_get_node_of(ch, h) = LeastPosition(at)

\* C2 (wraparound resolution), stated for the rings whose array is strictly
\* sorted and whose slot nodes[nodes_len] lies inside the buffer: for every
\* item hash whose position exceeds the position of every stored node,
\* get_node_of returns the hash of the node with the smallest position.
C2_WraparoundResolution ==
  \A h \in Hashes :
    ( /\ StrictlySorted(ch)
      /\ ch.nodes_len >= 1
      /\ ch.nodes_len < ch.nodes_capacity
      /\ AtOrAfter(ch, Position(h, ch.ring_size)) = {} ) =>
      consistent_hasher_get_node_of(ch, h) = LeastPosition(Stored(ch))

\* C3 (sortedness): after any sequence of insert_node and delete_node calls,
\* nodes[i].position < nodes[i+1].position for every i with
\* 0 <= i < nodes_len - 1 (checked on the slots the buffer holds).
C3_Sortedness ==
  \A i \in 0..(ch.nodes_len - 2) :
    (i + 1) \in DOMAIN ch.nodes => ch.nodes[i].position < ch.nodes[i + 1].position

\* C9 (allocation-failure atomicity): whenever the allocator returns NULL
\* inside insert_node (first allocation or doubling) or delete_node (shrink),
\* the call returns ERROR_ALLOCATION, and a call that returns ERROR_ALLOCATION
\* leaves ring_size, nodes_len, nodes_capacity and the buffer as they were.
C9_AllocationFailureAtomic ==
  [][ ( /\ call'.op \in {"insert", "delete"}
        /\ (call'.alloc_null \/ call'.ret = CONSISTENT_HASHER_ERROR_ALLOCATION) ) =>
      /\ call'.alloc_null
      /\ call'.ret = CONSISTENT_HASHER_ERROR_ALLOCATION
      /\ ch' = ch ]_vars

\* a shrink whose allocation failed, on a ring that holds two or more nodes
C9_Witness ==
  /\ call.op = "delete"
  /\ call.alloc_null
  /\ call.ret = CONSISTENT_HASHER_ERROR_ALLOCATION
  /\ ch.nodes_len >= 2
  /\ ch.nodes_len - 1 = CDiv(ch.nodes_capacity, 2)

\* C10 (capacity never drops below count): nodes_len <= nodes_capacity in
\* every state reachable from consistent_hasher_init by insert_node and
\* delete_node calls.
C10_LenAtMostCapacity == ch.nodes_len <= ch.nodes_capacity

\* get_node_of(h) reads inside the buffer only: it has one possible result
Defined(c, h) == Cardinality(consistent_hasher_get_node_of(c, h)) = 1

\* C4 (minimal remapping on add), stated for the rings whose array is strictly
\* sorted before the call and for the lookups that read inside the buffer:
\* when insert_node(n) returns OK on a ring with at least one node, every
\* item hash h whose get_node_of(h) differs after the insert from its value
\* before the insert resolves to n afterwards.
C4_MinimalRemappingOnAdd ==
  [][ ( /\ call'.op = "insert"
        /\ call'.ret = CONSISTENT_HASHER_OK
        /\ ch' # ch
        /\ ch.nodes_len >= 1
        /\ StrictlySorted(ch) ) =>
      \A h \in Hashes :
        ( /\ Defined(ch, h)
          /\ Defined(ch', h)
          /\ consistent_hasher_get_node_of(ch', h) # consistent_hasher_get_node_of(ch, h) ) =>
          consistent_hasher_get_node_of(ch', h) = {call'.arg} ]_vars

\* C5 (minimal remapping on remove), stated for the rings whose array is
\* strictly sorted before the call and for the lookups that read inside the
\* buffer: when delete_node(n) returns OK for the hash n of a node stored in
\* a ring with at least two nodes, every item hash h whose get_node_of(h) was
\* not n before the delete resolves to the same hash after it.
C5_MinimalRemappingOnRemove ==
  [][ ( /\ call'.op = "delete"
        /\ call'.ret = CONSISTENT_HASHER_OK
        /\ ch' # ch
        /\ ch.nodes_len >= 2
        /\ StrictlySorted(ch)
        /\ \E n \in Stored(ch) : n.hash = call'.arg ) =>
      \A h \in Hashes :
        ( /\ Defined(ch, h)
          /\ Defined(ch', h)
          /\ consistent_hasher_get_node_of(ch, h) # {call'.arg} ) =>
          consistent_hasher_get_node_of(ch', h) = consistent_hasher_get_node_of(ch, h) ]_vars

\* C6 (collision rejection): insert_node(b) returns ERROR_NODE_PRESENT and
\* leaves the ring unchanged whenever a hash a with the position of b was
\* inserted successfully and not deleted since, even if b # a; and an insert
\* at a position held by no live hash and no stored entry returns OK (both
\* parts for the calls in which no allocation fails).
C6_CollisionRejection ==
  [][ call'.op = "insert" =>
      /\ (live \cap SamePosition(call'.arg) # {} /\ ~call'.alloc_null) =>
           /\ call'.ret = CONSISTENT_HASHER_ERROR_NODE_PRESENT
           /\ ch' = ch
      /\ ( /\ live \cap SamePosition(call'.arg) = {}
           /\ InBuffer(ch)
           /\ \A n \in Stored(ch) : n.position # Position(call'.arg, ch.ring_size)
           /\ ~call'.alloc_null ) =>
           call'.ret = CONSISTENT_HASHER_OK ]_vars

\* C7 (no-op delete), stated for the hashes x such that no hash with the
\* position of x was ever inserted, on rings with nodes_len <= nodes_capacity
\* and for the calls in which no allocation fails: delete_node(x) returns OK
\* and leaves nodes_len, nodes_capacity and every entry unchanged.
C7_NoOpDelete ==
  [][ ( /\ call'.op = "delete"
        /\ ever \cap SamePosition(call'.arg) = {}
        /\ InBuffer(ch)
        /\ ~call'.alloc_null ) =>
      /\ call'.ret = CONSISTENT_HASHER_OK
      /\ ch' = ch ]_vars

\* C8 (round trip), stated for the rings whose array is strictly sorted and
\* for allocations that succeed: whenever insert_node(x) returns OK, the
\* sequence insert_node(x); delete_node(x); insert_node(x) returns OK three
\* times and, when no call wrote past the buffer, the set of entries after
\* the third call is the set after the first.
C8_RoundTrip ==
  \A x \in Hashes :
    \A first \in consistent_hasher_insert_node(ch, x, TRUE) :
      (StrictlySorted(ch) /\ first.ret = CONSISTENT_HASHER_OK) =>
        \A second \in consistent_hasher_delete_node(first.ch, x, TRUE) :
          /\ second.ret = CONSISTENT_HASHER_OK
          /\ \A third \in consistent_hasher_insert_node(second.ch, x, TRUE) :
               /\ third.ret = CONSISTENT_HASHER_OK
               /\ InBuffer(third.ch) => Stored(third.ch) = Stored(first.ch)

\* C11 (capacity growth): a successful insert_node sets nodes_capacity to
\* CONSISTENT_HASHER_INITIAL_CAPACITY when the capacity was 0, to twice its
\* value when nodes_len == nodes_capacity > 0, and leaves it unchanged
\* otherwise; a failed insert leaves it unchanged; after every successful
\* insert nodes_capacity >= 1.
C11_CapacityGrowth ==
  [][ call'.op = "insert" =>
      IF call'.ret = CONSISTENT_HASHER_OK
        THEN /\ ch'.nodes_capacity >= 1
             /\ ch'.nodes_capacity =
                  IF ch.nodes_capacity = 0 THEN initial_capacity
                  ELSE IF ch.nodes_len = ch.nodes_capacity THEN 2 * ch.nodes_capacity
                  ELSE ch.nodes_capacity
        ELSE ch'.nodes_capacity = ch.nodes_capacity ]_vars

\* C12 (capacity shrink): a delete_node call that removes a node
\* and leaves a count of exactly half the capacity before it
\* (2 * new nodes_len == old nodes_capacity) sets nodes_capacity to the new
\* nodes_len; every other delete leaves nodes_capacity unchanged.
C12_CapacityShrink ==
  [][ call'.op = "delete" =>
      IF ch'.nodes_len = ch.nodes_len - 1 /\ 2 * ch'.nodes_len = ch.nodes_capacity
        THEN ch'.nodes_capacity = ch'.nodes_len
        ELSE ch'.nodes_capacity = ch.nodes_capacity ]_vars

\* C13 (insert effect), stated for the rings whose array is strictly sorted
\* before the call: when insert_node(x) returns OK, nodes_len increases by
\* exactly one and, when the call wrote inside the buffer, the set of entries
\* in nodes[0..nodes_len) afterwards is the set before the call plus
\* (x, x mod ring_size).
C13_InsertEffect ==
  [][ ( /\ call'.op = "insert"
        /\ call'.ret = CONSISTENT_HASHER_OK
        /\ StrictlySorted(ch) ) =>
      /\ ch'.nodes_len = ch.nodes_len + 1
      /\ InBuffer(ch') =>
           Stored(ch') = Stored(ch) \cup {Node(call'.arg, call'.arg % ch.ring_size)} ]_vars

\* C14 (delete effect), stated for the rings whose array is strictly sorted
\* before the call and for the calls in which no allocation fails: when
\* delete_node(x) is called on a ring that stores a node at position
\* x mod ring_size, at index k, nodes_len decreases by exactly one and the
\* entries afterwards are the entries before the call without the one at
\* index k, in the same order.
C14_DeleteEffect ==
  [][ ( /\ call'.op = "delete"
        /\ ~call'.alloc_null
        /\ StrictlySorted(ch)
        /\ \E n \in Stored(ch) : n.position = call'.arg % ch.ring_size ) =>
      LET k == CHOOSE i \in 0..(ch.nodes_len - 1) :
                 ch.nodes[i].position = call'.arg % ch.ring_size IN
      /\ ch'.nodes_len = ch.nodes_len - 1
      /\ ch'.nodes_len <= ch'.nodes_capacity
      /\ \A i \in 0..(ch'.nodes_len - 1) :
           ch'.nodes[i] = IF i < k THEN ch.nodes[i] ELSE ch.nodes[i + 1] ]_vars

\* C15 (locator hit index): for every ring whose array is strictly sorted and
\* every hash whose position p is the position of a stored entry, the binary
\* search returns true and an index i in [0, nodes_len) with
\* nodes[i].position == p.
C15_LocatorHitIndex ==
  \A h \in Hashes :
    ( /\ StrictlySorted(ch)
      /\ \E n \in Stored(ch) : n.position = h % ch.ring_size ) =>
      \A r \in _consistent_hasher_binary_search(ch, h) :
        /\ r.found
        /\ r.index \in 0..(ch.nodes_len - 1)
        /\ ch.nodes[r.index].position = h % ch.ring_size

\* C16 (locator miss index): for every strictly sorted store, the empty one
\* included, and every hash whose position p is held by no stored entry, the
\* binary search returns false, leaves the ring as it was and sets *index to
\* the smallest i in [0, nodes_len] such that i == nodes_len or
\* nodes[i].position > p; every entry before that index has a position < p.
C16_LocatorMissIndex ==
  [][ ( /\ call'.op = "search"
        /\ StrictlySorted(ch)
        /\ \A n \in Stored(ch) : n.position # call'.arg % ch.ring_size ) =>
      LET p == call'.arg % ch.ring_size
          stops(i) == i = ch.nodes_len \/ ch.nodes[i].position > p
          lower == CHOOSE i \in 0..ch.nodes_len :
                     stops(i) /\ \A j \in 0..(i - 1) : ~stops(j)
      IN  /\ ~call'.found
          /\ call'.index = lower
          /\ \A j \in 0..(lower - 1) : ch.nodes[j].position < p
          /\ ch' = ch ]_vars

\* a miss that falls between two entries of a ring of three or more nodes
C16_Witness ==
  /\ call.op = "search"
  /\ ~call.found
  /\ StrictlySorted(ch)
  /\ ch.nodes_len >= 3
  /\ call.index \in 1..(ch.nodes_len - 1)
  /\ ch.nodes[call.index - 1].position < call.arg % ch.ring_size
  /\ ch.nodes[call.index].position > call.arg % ch.ring_size

\* what a read of nodes[i] can give: the slot when the buffer holds it, and
\* any node when the slot lies past the end of the buffer
ReadNode(c, i) ==
  IF i \in DOMAIN c.nodes
    THEN {c.nodes[i]}
    ELSE {Node(h, p) : h \in Hashes, p \in Hashes}

\* C17 (position derivation invariant): in every reachable state, every
\* entry of nodes[0..nodes_len) has position == hash mod ring_size.
C17_PositionDerivation ==
  \A i \in 0..(ch.nodes_len - 1) :
    \A n \in ReadNode(ch, i) : n.position = n.hash % ch.ring_size

\* C18 (resolve returns a live node), stated for the rings whose array is
\* strictly sorted and for the lookups that read inside the buffer: in every
\* reachable state with at least one node, get_node_of(h) returns the hash
\* of an entry of nodes[0..nodes_len).
C18_ResolveReturnsLiveNode ==
  \A h \in Hashes :
    (StrictlySorted(ch) /\ ch.nodes_len >= 1 /\ Defined(ch, h)) =>
      consistent_hasher_get_node_of(ch, h) \subseteq {n.hash : n \in Stored(ch)}

\* C19 (buffer bounds), for get_node_of on the rings whose array is strictly
\* sorted and holds at least one node: the index at which get_node_of reads
\* nodes[index].position to decide whether to wrap is >= 0, below the number
\* of slots of the buffer and below nodes_len.
C19_BufferBounds ==
  \A h \in Hashes :
    (StrictlySorted(ch) /\ ch.nodes_len >= 1) =>
      \A i \in get_node_of_compared(ch, h) :
        /\ i >= 0
        /\ i < ch.nodes_capacity
        /\ i < ch.nodes_len

\* C20 (insertion-order independence), stated for the rings whose array is
\* strictly sorted and for allocations that succeed: for any two hashes a and
\* b of distinct positions, neither position being stored, insert_node(a);
\* insert_node(b) and insert_node(b); insert_node(a) return OK four times
\* and, when no call wrote past the buffer, leave the same nodes_len and the
\* same entries in nodes[0..nodes_len), slot by slot.
C20_InsertionOrderIndependence ==
  \A a, b \in Hashes :
    ( /\ StrictlySorted(ch)
      /\ a % ch.ring_size # b % ch.ring_size
      /\ \A n \in Stored(ch) : n.position \notin {a % ch.ring_size, b % ch.ring_size} ) =>
      \A a1 \in consistent_hasher_insert_node(ch, a, TRUE) :
      \A b1 \in consistent_hasher_insert_node(ch, b, TRUE) :
      \A ab \in consistent_hasher_insert_node(a1.ch, b, TRUE) :
      \A ba \in consistent_hasher_insert_node(b1.ch, a, TRUE) :
        /\ a1.ret = CONSISTENT_HASHER_OK
        /\ b1.ret = CONSISTENT_HASHER_OK
        /\ ab.ret = CONSISTENT_HASHER_OK
        /\ ba.ret = CONSISTENT_HASHER_OK
        /\ (InBuffer(ab.ch) /\ InBuffer(ba.ch)) =>
             /\ ab.ch.nodes_len = ba.ch.nodes_len
             /\ \A i \in 0..(ab.ch.nodes_len - 1) : ab.ch.nodes[i] = ba.ch.nodes[i]

====
